---- MODULE Spec2Model ----
(***************************************************************************)
(* Model of the debate protocol engine of sandexzx/ai_debate_system:       *)
(* DebateOrchestrator.run_debate and _conduct_round (agents/orchestrator), *)
(* Gatekeeper (agents/gatekeeper), BaseDebater (agents/debater) and Judge  *)
(* (agents/judge).                                                         *)
(*                                                                         *)
(* Texts are sequences of tokens, so that concatenation, strip, startswith *)
(* and replace are computed rather than assumed.  None and the empty       *)
(* string are both the empty sequence.  A Python dict is a sequence of     *)
(* <<key, value>> pairs in insertion order.                                *)
(***************************************************************************)
EXTENDS Integers, Sequences, FiniteSets, TLC

\* ------------------------------------------------------------------ bounds
\* number of run_debate calls made on one orchestrator
NumRuns == 2
\* values the wall clock can take (datetime.now, one-second resolution)
MaxClock == 1
\* number of lines in a judge response handed to _parse_judge_response
MaxLines == 2

\* ------------------------------------------------------- program constants
DEBATE_ROUNDS == 3

Runs == 1..NumRuns
\* None is distinct from the empty string; both are falsy
None == <<"<None>">>
Falsy(x) == x = None \/ x = <<>>
MutRoles == <<"D2", "D1", "D3">>
Roles == <<"D1", "D2", "D3">>

\* --------------------------------------------------------------- dicts
DictKeys(d) == [i \in 1..Len(d) |-> d[i][1]]
DictKeySet(d) == {d[i][1] : i \in 1..Len(d)}
DictHas(d, k) == k \in DictKeySet(d)
DictGet(d, k) == d[CHOOSE i \in 1..Len(d) : d[i][1] = k][2]
\* d[k] = v: an existing key keeps its position, a new key goes last
DictSet(d, k, v) ==
    IF DictHas(d, k)
    THEN [i \in 1..Len(d) |-> IF d[i][1] = k THEN <<k, v>> ELSE d[i]]
    ELSE Append(d, <<k, v>>)

\* ------------------------------------------------------ call outcomes
Ok(v) == [ok |-> TRUE, val |-> v]
Raise(m) == [ok |-> FALSE, exc |-> m]

\* ------------------------------------------------------------- str ops
RECURSIVE LStrip(_, _)
LStrip(s, c) == IF s # <<>> /\ Head(s) = c THEN LStrip(Tail(s), c) ELSE s
RECURSIVE RStrip(_, _)
RStrip(s, c) ==
    IF s # <<>> /\ s[Len(s)] = c
    THEN RStrip(SubSeq(s, 1, Len(s) - 1), c)
    ELSE s
\* str.strip(c); str.strip() is StripCh(s, " ")
StripCh(s, c) == RStrip(LStrip(s, c), c)
Strip(s) == StripCh(s, " ")
\* str.startswith(p)
StartsWith(s, p) == Len(s) >= Len(p) /\ SubSeq(s, 1, Len(p)) = p
\* str.replace(p, ""), p non-empty: leftmost non-overlapping occurrences
RECURSIVE RemoveAll(_, _)
RemoveAll(s, p) ==
    IF s = <<>> THEN <<>>
    ELSE IF StartsWith(s, p) THEN RemoveAll(SubSeq(s, Len(p) + 1, Len(s)), p)
    ELSE <<Head(s)>> \o RemoveAll(Tail(s), p)

\* ------------------------------------------------------- DebateContext
DebateContextFields ==
    {"query", "current_round", "arguments_history", "scores_history",
     "judge_feedback"}

\* the dataclass-generated __init__: every field is required, no other
\* keyword is accepted
NewDebateContext(kw) ==
    IF DOMAIN kw = DebateContextFields
    THEN Ok(kw)
    ELSE Raise(<<"TypeError: DebateContext.__init__() keywords ">>)

\* attribute read on an instance
GetAttr(obj, name) ==
    IF name \in DOMAIN obj
    THEN Ok(obj[name])
    ELSE Raise(<<"AttributeError: 'DebateContext' object has no attribute ", name>>)

\* ---------------------------------------------------------- Gatekeeper
\* should_debate, given the outcome of its completion call
MutShouldDebate(res) ==
    IF ~res.ok THEN <<FALSE, res.exc>>
    ELSE LET response == Strip(res.val) IN
         IF StartsWith(response, <<"PASS">>) THEN <<TRUE, None>>
         ELSE IF StartsWith(response, <<"REJECT">>)
              THEN <<FALSE, Strip(RemoveAll(response, <<"REJECT", ":">>))>>
              ELSE <<TRUE, None>>
ShouldDebate(res) ==
    IF ~res.ok THEN <<TRUE, None>>
    ELSE LET response == Strip(res.val) IN
         IF StartsWith(response, <<"PASS">>) THEN <<TRUE, None>>
         ELSE IF StartsWith(response, <<"REJECT">>)
              THEN <<FALSE, Strip(RemoveAll(response, <<"REJECT", ":">>))>>
              ELSE <<TRUE, None>>

\* get_enhanced_query, given the outcome of its completion call; the
\* tokens of an enhancement text are single characters
MutGetEnhancedQuery(original_query, res) ==
    IF ~res.ok THEN original_query
    ELSE LET enhanced == StripCh(Strip(res.val), "\"") IN
         IF Len(enhanced) >= 10 /\ Len(enhanced) < 500
         THEN enhanced
         ELSE original_query
GetEnhancedQuery(original_query, res) ==
    IF ~res.ok THEN original_query
    ELSE LET enhanced == StripCh(Strip(res.val), "\"") IN
         IF Len(enhanced) > 10 /\ Len(enhanced) < 500
         THEN enhanced
         ELSE original_query

\* ---------------------------------------------------------- BaseDebater
role_mapping == <<<<"D1", "PRO">>, <<"D2", "CONTRA">>, <<"D3", "ALTERNATIVE">>>>
max_length == 1000

\* str.split("."): the pieces between the periods
Periods(s) == {i \in 1..Len(s) : s[i] = "."}
NthPeriod(s, k) ==
    IF k = 0 THEN 0
    ELSE IF k > Cardinality(Periods(s)) THEN Len(s) + 1
    ELSE CHOOSE i \in Periods(s) : Cardinality({j \in Periods(s) : j <= i}) = k
Split(s) ==
    [k \in 1..(Cardinality(Periods(s)) + 1) |->
        SubSeq(s, NthPeriod(s, k - 1) + 1, NthPeriod(s, k) - 1)]

\* the loop of _clean_argument over the sentences, from sentence k on
RECURSIVE MutTruncateLoop(_, _, _)
MutTruncateLoop(sentences, k, truncated) ==
    IF k > Len(sentences) THEN truncated
    ELSE IF Len(truncated \o sentences[k] \o <<".">>) < max_length
         THEN MutTruncateLoop(sentences, k + 1, truncated \o sentences[k] \o <<".">>)
         ELSE truncated
RECURSIVE TruncateLoop(_, _, _)
TruncateLoop(sentences, k, truncated) ==
    IF k > Len(sentences) THEN truncated
    ELSE IF Len(truncated \o sentences[k] \o <<".">>) <= max_length
         THEN TruncateLoop(sentences, k + 1, truncated \o sentences[k] \o <<".">>)
         ELSE truncated

\* _clean_argument; the tokens of a model output are single characters
CleanArgument(raw) ==
    LET argument == Strip(raw) IN
    IF Len(argument) > max_length
    THEN LET truncated == TruncateLoop(Split(argument), 1, <<>>) IN
         IF truncated # <<>>
         THEN truncated
         ELSE SubSeq(argument, 1, max_length) \o <<".", ".", ".">>
    ELSE argument

\* _get_fallback_argument
MutFallbackArgument(role, context) ==
    LET role_name == IF DictHas(role_mapping, role)
                     THEN DictGet(role_mapping, role)
                     ELSE role
    IN  <<"[", role_name, "] ",
          "Technical difficulties generating the argument. My position on: ">>
        \o context.query \o <<ToString(context.current_round)>>
FallbackArgument(role, context) ==
    LET role_name == IF DictHas(role_mapping, role)
                     THEN DictGet(role_mapping, role)
                     ELSE role
    IN  <<"[", role_name, "] ",
          "Technical difficulties generating the argument. My position on: ">>
        \o context.query

\* _build_context_string: the list context_parts, one record per part; the
\* parts of round round_num
RoundParts(context, round_num) ==
    <<[kind |-> "round", round_num |-> round_num]>>
    \o (IF DictHas(context.arguments_history, round_num)
        THEN LET round_args == DictGet(context.arguments_history, round_num) IN
             [i \in 1..Len(round_args) |->
                 [kind |-> "argument",
                  round_num |-> round_num,
                  role |-> round_args[i][1],
                  role_name |-> IF DictHas(role_mapping, round_args[i][1])
                                THEN DictGet(role_mapping, round_args[i][1])
                                ELSE round_args[i][1],
                  argument |-> round_args[i][2]]]
        ELSE <<>>)
    \o (IF DictHas(context.judge_feedback, round_num)
        THEN <<[kind |-> "feedback", round_num |-> round_num,
                feedback |-> DictGet(context.judge_feedback, round_num)]>>
        ELSE <<>>)
    \o (IF DictHas(context.scores_history, round_num)
        THEN <<[kind |-> "score", round_num |-> round_num,
                scores |-> DictGet(context.scores_history, round_num)]>>
        ELSE <<>>)

\* the loop over range(1, last + 1)
RECURSIVE ContextParts(_, _)
ContextParts(context, last) ==
    IF last < 1 THEN <<>>
    ELSE ContextParts(context, last - 1) \o RoundParts(context, last)

MutBuildContextString(context) ==
    IF context.current_round = 1
    THEN <<[kind |-> "first round, the history is empty"]>>
    ELSE ContextParts(context, context.current_round)
BuildContextString(context) ==
    IF context.current_round = 1
    THEN <<[kind |-> "first round, the history is empty"]>>
    ELSE ContextParts(context, context.current_round - 1)

\* the keywords generate_argument hands to the prompt template
DebaterPrompt(role, context) ==
    [role |-> role,
     query |-> context.query,
     round_num |-> context.current_round,
     context |-> BuildContextString(context)]

\* generate_argument, given the outcome of its completion call
GenerateArgument(role, context, res) ==
    IF res.ok THEN CleanArgument(res.val) ELSE FallbackArgument(role, context)

\* ---------------------------------------------------------------- Judge
\* A judge response is the sequence of its segments as the judge's two
\* patterns see it:
\*   [kind |-> "score", role, logic, evidence, refutation, practicality,
\*    total]    one match of score_pattern, with the digits it captured
\*   [kind |-> "winner", role]    one match of winner_pattern
\*   [kind |-> "rec", text]       a labelled recommendations section
\*   [kind |-> "text"]            text no pattern matches
\* role is the digit captured after "D"
RoundScore(logic, evidence, refutation, practicality) ==
    [logic |-> logic, evidence |-> evidence, refutation |-> refutation,
     practicality |-> practicality]

\* RoundScore.total
MutTotal(score) ==
    score.logic + score.evidence + score.refutation
Total(score) ==
    score.logic + score.evidence + score.refutation + score.practicality

\* _generate_fallback_scores
MutGenerateFallbackScores(round_arguments) ==
    [i \in 1..Len(round_arguments) |->
        <<round_arguments[i][1], RoundScore(7, 7, 6, 7)>>]
GenerateFallbackScores(round_arguments) ==
    [i \in 1..Len(round_arguments) |->
        <<round_arguments[i][1], RoundScore(7, 6, 6, 7)>>]

\* score_pattern.findall(response), in order
ScoreMatches(response) == SelectSeq(response, LAMBDA seg : seg.kind = "score")
\* winner_pattern.search(response): the first match, if any
WinnerMatches(response) == SelectSeq(response, LAMBDA seg : seg.kind = "winner")

\* the loop of _parse_judge_response over the first k score matches
RECURSIVE ParsedScores(_, _)
ParsedScores(matches, k) ==
    IF k = 0 THEN <<>>
    ELSE LET match == matches[k] IN
         DictSet(ParsedScores(matches, k - 1),
                 Roles[match.role],
                 RoundScore(match.logic, match.evidence, match.refutation,
                            match.practicality))

\* max(keys, key = total, default = "D1"): the first key with the largest
\* total
MutMaxByTotal(scores) ==
    IF scores = <<>> THEN "D1"
    ELSE LET i == CHOOSE i \in 1..Len(scores) :
                    /\ \A j \in 1..Len(scores) :
                          Total(scores[j][2]) <= Total(scores[i][2])
                    /\ \A j \in (i + 1)..Len(scores) :
                          Total(scores[j][2]) < Total(scores[i][2])
         IN  scores[i][1]
MaxByTotal(scores) ==
    IF scores = <<>> THEN "D1"
    ELSE LET i == CHOOSE i \in 1..Len(scores) :
                    /\ \A j \in 1..Len(scores) :
                          Total(scores[j][2]) <= Total(scores[i][2])
                    /\ \A j \in 1..(i - 1) :
                          Total(scores[j][2]) < Total(scores[i][2])
         IN  scores[i][1]

\* _extract_recommendations: the first labelled section, stripped
ExtractRecommendations(response) ==
    LET sections == SelectSeq(response, LAMBDA seg : seg.kind = "rec") IN
    IF sections # <<>>
    THEN Strip(sections[1].text)
    ELSE <<"Keep going, strengthen the argumentation.">>

\* _parse_judge_response
ParseJudgeResponse(response, round_arguments) ==
    LET matches == ScoreMatches(response)
        parsed == ParsedScores(matches, Len(matches))
        scores == IF parsed = <<>>
                  THEN GenerateFallbackScores(round_arguments)
                  ELSE parsed
        winner_match == WinnerMatches(response)
        winner == IF winner_match # <<>>
                  THEN Roles[winner_match[1].role]
                  ELSE MaxByTotal(scores)
    IN  [scores |-> scores,
         winner |-> winner,
         feedback |-> response,
         recommendations |-> ExtractRecommendations(response)]

\* _get_fallback_evaluation
GetFallbackEvaluation(round_arguments) ==
    [scores |-> GenerateFallbackScores(round_arguments),
     winner |-> IF round_arguments # <<>> THEN round_arguments[1][1] ELSE "D1",
     feedback |-> <<"Technical error while evaluating the round">>,
     recommendations |-> <<"Continue the argumentation">>]

\* _update_context_with_arguments: the temporary copy for the judge prompt
UpdateContextWithArguments(context, round_arguments) ==
    LET updated_history == DictSet(context.arguments_history,
                                   context.current_round, round_arguments)
        summaries == GetAttr(context, "summaries")
    IN  IF ~summaries.ok THEN summaries
        ELSE NewDebateContext([query |-> context.query,
                               current_round |-> context.current_round,
                               arguments_history |-> updated_history,
                               scores_history |-> context.scores_history,
                               judge_feedback |-> context.judge_feedback,
                               summaries |-> summaries.val])

\* what _update_context_with_arguments leaves in the context it was given:
\* the round is written to a copy of arguments_history (dict.copy), never
\* to the context's own dict
MutCanonicalAfterUpdate(context, round_arguments) ==
    [context EXCEPT !.arguments_history =
        DictSet(@, context.current_round, round_arguments)]
CanonicalAfterUpdate(context, round_arguments) ==
    LET copy == context.arguments_history
        updated_history == DictSet(copy, context.current_round, round_arguments)
    IN  [context EXCEPT !.arguments_history = copy]

\* evaluate_round; res is the outcome of the judge's completion call, made
\* only once the temporary context exists
EvaluateRound(context, round_arguments, res) ==
    LET temp_context == UpdateContextWithArguments(context, round_arguments) IN
    IF ~temp_context.ok THEN temp_context
    ELSE IF res.ok THEN Ok(ParseJudgeResponse(res.val, round_arguments))
    ELSE Ok(GetFallbackEvaluation(round_arguments))

\* _update_context_with_results
UpdateContextWithResults(context, round_result) ==
    LET round_num == context.current_round IN
    [context EXCEPT
        !.scores_history =
            DictSet(@, round_num,
                    [i \in 1..Len(round_result.scores) |->
                        <<round_result.scores[i][1],
                          Total(round_result.scores[i][2])>>]),
        !.judge_feedback = DictSet(@, round_num, round_result.feedback)]

\* max(scores.keys(), key = lambda k: scores[k]): the first key with the
\* largest value
MutMaxByValue(scores) ==
    LET i == CHOOSE i \in 1..Len(scores) :
                /\ \A j \in 1..Len(scores) : scores[j][2] <= scores[i][2]
                /\ \A j \in (i + 1)..Len(scores) : scores[j][2] < scores[i][2]
    IN  scores[i][1]
MaxByValue(scores) ==
    LET i == CHOOSE i \in 1..Len(scores) :
                /\ \A j \in 1..Len(scores) : scores[j][2] <= scores[i][2]
                /\ \A j \in 1..(i - 1) : scores[j][2] < scores[i][2]
    IN  scores[i][1]

RECURSIVE SumLen(_)
SumLen(arguments) ==
    IF arguments = <<>> THEN 0
    ELSE Len(arguments[1][2]) + SumLen(Tail(arguments))

\* _calculate_debate_stats: the volume of the arguments and the winner of
\* every round of arguments_history that has scores
RECURSIVE CalculateDebateStats(_, _)
CalculateDebateStats(context, k) ==
    IF k = 0 THEN [total_chars |-> 0, round_winners |-> <<>>]
    ELSE LET before == CalculateDebateStats(context, k - 1)
             round_num == context.arguments_history[k][1]
             arguments == context.arguments_history[k][2]
         IN  [total_chars |-> before.total_chars + SumLen(arguments),
              round_winners |->
                  IF DictHas(context.scores_history, round_num)
                  THEN Append(before.round_winners,
                              MaxByValue(DictGet(context.scores_history, round_num)))
                  ELSE before.round_winners]

Count(seq, x) == Cardinality({i \in 1..Len(seq) : seq[i] = x})

\* the winners line: role and count for every role that won a round (the
\* source iterates a set; the roles are listed here in the order D1, D2, D3)
RECURSIVE WinnersSummary(_, _)
WinnersSummary(round_winners, k) ==
    IF k = 0 THEN <<>>
    ELSE WinnersSummary(round_winners, k - 1)
         \o (IF Count(round_winners, Roles[k]) > 0
             THEN <<Roles[k], ToString(Count(round_winners, Roles[k]))>>
             ELSE <<>>)

\* _format_final_verdict
FormatFinalVerdict(verdict, context) ==
    LET stats == CalculateDebateStats(context, Len(context.arguments_history))
        participants ==
            UNION {DictKeySet(context.arguments_history[i][2]) :
                       i \in 1..Len(context.arguments_history)}
    IN  <<"FINAL VERDICT: ">> \o verdict
        \o <<"rounds: ", ToString(Len(context.arguments_history)),
             "participants: ", ToString(Cardinality(participants)),
             "volume: ", ToString(stats.total_chars),
             "wins: ">>
        \o WinnersSummary(stats.round_winners, Len(Roles))

\* _get_fallback_verdict
MutGetFallbackVerdict(context) ==
    <<"FINAL VERDICT (fallback mode). QUERY: ">>
    \o <<"Technical error. Consider all the presented points of view.">>
GetFallbackVerdict(context) ==
    <<"FINAL VERDICT (fallback mode). QUERY: ">> \o context.query
    \o <<"Technical error. Consider all the presented points of view.">>

\* final_verdict, given the outcome of its completion call
FinalVerdict(context, res) ==
    IF res.ok THEN FormatFinalVerdict(res.val, context)
    ELSE GetFallbackVerdict(context)

\* ---------------------------------------------------------------- state
VARIABLES
    clock,      \* datetime.now(), in seconds
    sessions,   \* DebateOrchestrator.sessions: dict session_id -> object
    sess,       \* the DebateSession objects, by the call that created them
    pc,         \* where each run_debate call is suspended
    args,       \* the arguments of each run_debate call
    frame,      \* locals of the round in progress; failed: the roles whose
                \* completion call failed in it; prompt: what the arguer
                \* called last was given
    exc,        \* the exception caught by run_debate's handler, if any
    jin,        \* a direct call of one function: its arguments
    jout,       \* a direct call of one function: what it returned or raised
    tracker,    \* token_tracker.sessions: dict session_id -> statistics
    web,        \* the requests of the web application, by arrival
    calls       \* the completion calls each run_debate call has started

vars == <<clock, sessions, sess, pc, args, frame, exc, jin, jout, tracker, web,
          calls>>

\* datetime.now() as a text
Now == <<ToString(clock)>>

\* ---------------------------------------------------------------- inputs
Query(r) == <<"query", ToString(r)>>
ExplicitId == <<"app_1">>
OverrideQuery == <<"override">>
KnownEnhanced == <<"known enhanced">>
CallbackError == <<"callback error">>
TransportError == <<"transport error">>

\* the keyword combinations run_debate is called with
CallArgs(r) ==
    LET default == [query |-> Query(r), session_id |-> None,
                    override_query |-> None, known_enhanced |-> None,
                    skip_enhance |-> FALSE, skip_gatekeeper |-> FALSE,
                    on_update |-> FALSE]
    IN  {default,
         [default EXCEPT !.session_id = ExplicitId],
         [default EXCEPT !.session_id = ExplicitId,
                         !.override_query = OverrideQuery,
                         !.known_enhanced = KnownEnhanced,
                         !.skip_enhance = TRUE,
                         !.skip_gatekeeper = TRUE,
                         !.on_update = TRUE],
         [default EXCEPT !.skip_enhance = TRUE, !.on_update = TRUE],
         [default EXCEPT !.override_query = OverrideQuery,
                         !.skip_gatekeeper = TRUE,
                         !.on_update = TRUE]}

Text(n) == [i \in 1..n |-> "e"]
\* outcomes of the gatekeeper's completion call
GkOutcomes ==
    {Raise(TransportError),
     Ok(<<" ", "PASS", " ">>),
     Ok(<<"REJECT", ":", " ", "trivial">>),
     Ok(<<"maybe">>)}
\* texts the gatekeeper model can answer with
GkResponses ==
    {<<" ", "PASS", " ">>,
     <<"PASS", "ED", " ", "gladly">>,
     <<"I", " ", "PASS">>,
     <<"REJECT", ":", " ", "trivial">>,
     <<" ", "REJECT", ":", "trivial", " ">>,
     <<"REJECT", ":">>,
     <<"REJECT", " ", "trivial">>,
     <<"REJECT", "ED", ":", " ", "trivial">>,
     <<"REJECT", ":", " ", "see", " ", "REJECT", ":", " ", "rules">>,
     <<"no", " ", "REJECT", ":", "x">>,
     <<"maybe">>,
     <<>>}
\* a behaviour can fix beforehand what the gatekeeper's completion call
\* will do: answer one of these texts or fail
GkScripts ==
    {Raise(TransportError), Raise(<<"timeout">>)}
    \cup {Ok(response) : response \in GkResponses}
\* what the gatekeeper's completion call can do in the current behaviour
GkChoice == IF jin.kind = "service" THEN {jin.gatekeeper} ELSE GkOutcomes
\* outcomes of the enhancement completion call
EnhOutcomes ==
    {Raise(TransportError),
     Ok(Text(10)),
     Ok(<<" ", "\"">> \o Text(11) \o <<"\"", " ">>)}

\* ----------------------------------------------------------- run_debate
NewSession(sid, query, now) ==
    [session_id |-> sid,
     original_query |-> query,
     enhanced_query |-> <<>>,
     start_time |-> now,
     end_time |-> None,
     context |-> None,
     results |-> <<>>,
     final_verdict |-> None,
     status |-> "pending",
     token_stats |-> None]

\* an exception propagating out of the step that produced session state s
Raised(s, msg) == [s |-> s, pc |-> "raise", exc |-> msg]

\* the try/except of run_debate around an outcome o of its body
MutTryExcept(o, now) == o
MutTryExceptNoEndTime(o, now) ==
    IF o.pc = "raise"
    THEN [s |-> [o.s EXCEPT !.status = "failed",
                            !.final_verdict = <<"Tech error: ">> \o o.exc],
          pc |-> "done", exc |-> o.exc]
    ELSE o
MutTryExceptDropsRound(o, now) ==
    IF o.pc = "raise"
    THEN [s |-> [o.s EXCEPT !.status = "failed",
                            !.final_verdict = <<"Tech error: ">> \o o.exc,
                            !.end_time = now,
                            !.results = IF @ = <<>> THEN @
                                        ELSE SubSeq(@, 1, Len(@) - 1)],
          pc |-> "done", exc |-> o.exc]
    ELSE o
TryExcept(o, now) ==
    IF o.pc = "raise"
    THEN [s |-> [o.s EXCEPT !.status = "failed",
                            !.final_verdict = <<"Tech error: ">> \o o.exc,
                            !.end_time = now],
          pc |-> "done", exc |-> o.exc]
    ELSE o

\* from "session.enhanced_query = enhanced_query" to the construction of
\* the context; cb: the progress callback raises
AfterEnhance(s, a, enhanced_query, cb, now) ==
    LET s1 == [s EXCEPT !.enhanced_query = enhanced_query]
        debate_query == IF Falsy(a.override_query)
                        THEN enhanced_query
                        ELSE a.override_query
        c == NewDebateContext([query |-> debate_query,
                               current_round |-> 1,
                               arguments_history |-> <<>>,
                               scores_history |-> <<>>,
                               judge_feedback |-> <<>>,
                               summaries |-> <<>>])
    IN  IF a.on_update /\ cb THEN Raised(s1, CallbackError)
        ELSE IF ~c.ok THEN Raised(s1, c.exc)
        ELSE [s |-> [s1 EXCEPT !.context = c.val], pc |-> "round", exc |-> None]

\* from the admission decision to the enhancement call
MutAfterGatekeeper(s, a, decision, cb, now) ==
    IF ~decision[1]
    THEN [s |-> [s EXCEPT !.status = "rejected",
                          !.final_verdict = <<"Rejected: ">> \o decision[2],
                          !.end_time = now],
          pc |-> "enhance", exc |-> None]
    ELSE IF a.skip_enhance /\ a.known_enhanced # None
         THEN AfterEnhance(s, a, a.known_enhanced, cb, now)
         ELSE [s |-> s, pc |-> "enhance", exc |-> None]
AfterGatekeeper(s, a, decision, cb, now) ==
    IF ~decision[1]
    THEN [s |-> [s EXCEPT !.status = "rejected",
                          !.final_verdict = <<"Rejected: ">> \o decision[2],
                          !.end_time = now],
          pc |-> "done", exc |-> None]
    ELSE IF a.skip_enhance /\ a.known_enhanced # None
         THEN AfterEnhance(s, a, a.known_enhanced, cb, now)
         ELSE [s |-> s, pc |-> "enhance", exc |-> None]

\* the places where run_debate waits for a completion call: those of
\* should_debate, get_enhanced_query, generate_argument, evaluate_round and
\* final_verdict
CallSites == {"gatekeeper", "enhance", "arguer", "judge", "verdict"}

\* the body of run_debate moves to outcome o, inside its try; a completion
\* call is started where o waits for one
Goto(r, body) ==
    LET o == TryExcept(body, Now) IN
    /\ sess' = [sess EXCEPT ![r] = o.s]
    /\ pc' = [pc EXCEPT ![r] = o.pc]
    /\ exc' = [exc EXCEPT ![r] = o.exc]
    /\ calls' = [calls EXCEPT ![r] = IF o.pc \in CallSites
                                      THEN Append(@, o.pc)
                                      ELSE @]

\* lines 90-101: the session is created and registered
Create(r) ==
    /\ pc[r] = "idle"
    /\ \A q \in 1..(r - 1) : pc[q] # "idle"
    /\ \E a \in CallArgs(r) :
        LET session_id == IF Falsy(a.session_id)
                          THEN <<"debate_">> \o Now
                          ELSE a.session_id
        IN  /\ args' = [args EXCEPT ![r] = a]
            /\ sess' = [sess EXCEPT ![r] = NewSession(session_id, a.query, Now)]
            /\ sessions' = DictSet(sessions, session_id, r)
    /\ pc' = [pc EXCEPT ![r] = "created"]
    /\ UNCHANGED <<clock, frame, exc, jin, jout, tracker, web, calls>>

MutStart(r) ==
    /\ pc[r] = "created"
    /\ Goto(r, [s |-> sess[r], pc |-> "admission", exc |-> None])
    /\ UNCHANGED <<clock, sessions, args, frame, jin, jout, tracker, web>>

\* lines 103-105: the try block is entered, status running
Start(r) ==
    /\ pc[r] = "created"
    /\ Goto(r, [s |-> [sess[r] EXCEPT !.status = "running"],
                pc |-> "admission", exc |-> None])
    /\ UNCHANGED <<clock, sessions, args, frame, jin, jout, tracker, web>>

\* lines 107-111: the gatekeeper call is started unless skipped
MutAdmission(r) ==
    /\ pc[r] = "admission"
    /\ Goto(r, [s |-> sess[r], pc |-> "gatekeeper", exc |-> None])
    /\ UNCHANGED <<clock, sessions, args, frame, jin, jout, tracker, web>>
Admission(r) ==
    /\ pc[r] = "admission"
    /\ IF ~args[r].skip_gatekeeper
       THEN Goto(r, [s |-> sess[r], pc |-> "gatekeeper", exc |-> None])
       ELSE \E cb \in BOOLEAN :
               Goto(r, AfterGatekeeper(sess[r], args[r], <<TRUE, None>>, cb, Now))
    /\ UNCHANGED <<clock, sessions, args, frame, jin, jout, tracker, web>>

\* the gatekeeper's completion call returns or fails
GatekeeperReturn(r) ==
    /\ pc[r] = "gatekeeper"
    /\ \E res \in GkChoice, cb \in BOOLEAN :
        Goto(r, AfterGatekeeper(sess[r], args[r], ShouldDebate(res), cb, Now))
    /\ UNCHANGED <<clock, sessions, args, frame, jin, jout, tracker, web>>

\* the enhancement completion call returns or fails
MutEnhanceReturn(r) ==
    /\ pc[r] = "enhance"
    /\ Goto(r, [s |-> sess[r], pc |-> "admission", exc |-> None])
    /\ UNCHANGED <<clock, sessions, args, frame, jin, jout, tracker, web>>
EnhanceReturn(r) ==
    /\ pc[r] = "enhance"
    /\ \E res \in EnhOutcomes, cb \in BOOLEAN :
        Goto(r, AfterEnhance(sess[r], args[r],
                             GetEnhancedQuery(args[r].query, res), cb, Now))
    /\ UNCHANGED <<clock, sessions, args, frame, jin, jout, tracker, web>>

\* get_detailed_session: self.sessions.get(session_id), the stored object
\* identified by the call that created it
GetDetailedSession(session_id) ==
    IF DictHas(sessions, session_id)
    THEN sess[DictGet(sessions, session_id)]
    ELSE None

\* list_sessions: list(self.sessions.keys())
ListSessions == DictKeys(sessions)

\* a second passes
Tick ==
    /\ clock < MaxClock
    /\ clock' = clock + 1
    /\ UNCHANGED <<sessions, sess, pc, args, frame, exc, jin, jout, tracker, web, calls>>

NoSession == [status |-> "none"]
NoArgs == [query |-> None]
NoFrame == [round_num |-> 0]
NoCall == [kind |-> "none"]
NoRequest ==
    [pc |-> "none", endpoint |-> "none", session_id |-> None, form |-> None,
     prepared |-> None, orchestrator_sessions |-> <<>>, q |-> <<>>,
     generator |-> "none", yielded |-> <<>>]

Init ==
    /\ clock = 0
    /\ sessions = <<>>
    /\ sess = [r \in Runs |-> NoSession]
    /\ pc = [r \in Runs |-> "idle"]
    /\ args = [r \in Runs |-> NoArgs]
    /\ frame = [r \in Runs |-> NoFrame]
    /\ exc = [r \in Runs |-> None]
    /\ jin = NoCall
    /\ jout = NoCall
    /\ tracker = <<>>
    /\ web = [r \in Runs |-> NoRequest]
    /\ calls = [r \in Runs |-> <<>>]

Next ==
    \/ Tick
    \/ \E r \in Runs : Create(r)
    \/ \E r \in Runs : Start(r)
    \/ \E r \in Runs : Admission(r)
    \/ \E r \in Runs : GatekeeperReturn(r)
    \/ \E r \in Runs : EnhanceReturn(r)

Spec == Init /\ [][Next]_vars

\* the event loop resumes every call of run_debate that can go on, and
\* every completion call that was started returns or fails
Fairness ==
    \A r \in Runs :
        /\ WF_vars(Start(r))
        /\ WF_vars(Admission(r))
        /\ WF_vars(GatekeeperReturn(r))
        /\ WF_vars(EnhanceReturn(r))


\* one call of run_debate against a gatekeeper model whose answer is fixed
\* beforehand
InitAdmission ==
    /\ clock = 0
    /\ sessions = <<>>
    /\ sess = [r \in Runs |-> NoSession]
    /\ pc = [r \in Runs |-> IF r = 1 THEN "idle" ELSE "off"]
    /\ args = [r \in Runs |-> NoArgs]
    /\ frame = [r \in Runs |-> NoFrame]
    /\ exc = [r \in Runs |-> None]
    /\ \E res \in GkScripts : jin = [kind |-> "service", gatekeeper |-> res]
    /\ jout = NoCall
    /\ tracker = <<>>
    /\ web = [r \in Runs |-> NoRequest]
    /\ calls = [r \in Runs |-> <<>>]

SpecAdmission == InitAdmission /\ [][Next]_vars

\* the same call under the fair scheduling of the event loop
SpecFair == SpecAdmission /\ Fairness

\* ------------------------------------------------------- _conduct_round
\* outcomes of an arguer's completion call
ArgOutcomes ==
    {Raise(TransportError),
     Ok(<<" ", "p", "o", "i", "n", "t", ".", " ">>)}

CallbackErrorArgument ==
    <<"[Tech error generating the argument: ">> \o CallbackError \o <<"]">>

\* lines 146-150 and 204-215: round round_num begins; D1's completion call
\* is started
RoundStart(r) ==
    /\ pc[r] = "round"
    /\ sess' = [sess EXCEPT ![r].context.current_round = frame[r].round_num]
    /\ frame' = [frame EXCEPT ![r] = [round_num |-> frame[r].round_num,
                                      role |-> 1,
                                      round_arguments |-> <<>>,
                                      failed |-> {},
                                      prompt |-> DebaterPrompt(
                                          Roles[1], sess'[r].context)]]
    /\ pc' = [pc EXCEPT ![r] = "arguer"]
    /\ calls' = [calls EXCEPT ![r] = Append(@, "arguer")]
    /\ UNCHANGED <<clock, sessions, args, exc, jin, jout, tracker, web>>

\* lines 215-241 for one role, given the argument _get_debater_argument
\* returned; cb1, cb2: the first, the second call of the callback raises
CollectArgument(a, round_arguments, role, argument, cb1, cb2) ==
    IF a.on_update /\ cb1
    THEN IF cb2
         THEN Raise(CallbackError)
         ELSE Ok(DictSet(DictSet(round_arguments, role, argument),
                         role, CallbackErrorArgument))
    ELSE Ok(DictSet(round_arguments, role, argument))

\* lines 243-248: the arguments are stored, then evaluate_round is entered
\* up to its completion call
MutStartEvaluationFirstKey(s, round_arguments) ==
    LET s1 == [s EXCEPT !.context.arguments_history =
                   DictSet(@, 1, round_arguments)]
        temp_context == UpdateContextWithArguments(s1.context, round_arguments)
    IN  IF ~temp_context.ok
        THEN Raised(s1, temp_context.exc)
        ELSE [s |-> s1, pc |-> "judge", exc |-> None]
MutStartEvaluation(s, round_arguments) ==
    LET temp_context == UpdateContextWithArguments(s.context, round_arguments)
    IN  IF ~temp_context.ok
        THEN Raised(s, temp_context.exc)
        ELSE [s |-> s, pc |-> "judge", exc |-> None]
StartEvaluation(s, round_arguments) ==
    LET s1 == [s EXCEPT !.context.arguments_history =
                   DictSet(@, s.context.current_round, round_arguments)]
        temp_context == UpdateContextWithArguments(s1.context, round_arguments)
    IN  IF ~temp_context.ok
        THEN Raised(s1, temp_context.exc)
        ELSE [s |-> s1, pc |-> "judge", exc |-> None]

\* an arguer's completion call returns or fails; the next arguer's call is
\* started, or after D3 the evaluation
ArguerReturn(r) ==
    /\ pc[r] = "arguer"
    /\ \E res \in ArgOutcomes, cb1 \in BOOLEAN, cb2 \in BOOLEAN :
        LET role == Roles[frame[r].role]
            argument == GenerateArgument(role, sess[r].context, res)
            collected == CollectArgument(args[r], frame[r].round_arguments,
                                         role, argument, cb1, cb2)
        IN  IF ~collected.ok
            THEN /\ Goto(r, Raised(sess[r], collected.exc))
                 /\ UNCHANGED frame
            ELSE /\ frame' = [frame EXCEPT
                                ![r].round_arguments = collected.val,
                                ![r].failed = IF res.ok THEN @ ELSE @ \cup {role},
                                ![r].role = IF @ < Len(Roles) THEN @ + 1 ELSE @,
                                ![r].prompt =
                                    IF frame[r].role < Len(Roles)
                                    THEN DebaterPrompt(Roles[frame[r].role + 1],
                                                       sess[r].context)
                                    ELSE @]
                 /\ IF frame[r].role < Len(Roles)
                    THEN Goto(r, [s |-> sess[r], pc |-> "arguer", exc |-> None])
                    ELSE Goto(r, StartEvaluation(sess[r], collected.val))
    /\ UNCHANGED <<clock, sessions, args, jin, jout, tracker, web>>

\* outcomes of the judge's completion calls
JudgeOutcomes ==
    {Raise(TransportError),
     Ok(<<[kind |-> "text"]>>),
     Ok(<<[kind |-> "score", role |-> 1, logic |-> 8, evidence |-> 7,
           refutation |-> 6, practicality |-> 9, total |-> 30]>>)}
VerdictOutcomes == {Raise(TransportError), Ok(<<"decision">>)}

\* lines 66-80 and 249-252, 151-159: the judge's completion call returns or
\* fails; the result is reported, recorded and copied into the context;
\* the pause between rounds begins
JudgeReturn(r) ==
    /\ pc[r] = "judge"
    /\ \E res \in JudgeOutcomes, cb \in BOOLEAN :
        LET round_arguments == frame[r].round_arguments
            round_result == IF res.ok
                            THEN ParseJudgeResponse(res.val, round_arguments)
                            ELSE GetFallbackEvaluation(round_arguments)
            s1 == [sess[r] EXCEPT
                      !.results = Append(@, round_result),
                      !.context = UpdateContextWithResults(@, round_result)]
        IN  IF args[r].on_update /\ cb
            THEN Goto(r, Raised(sess[r], CallbackError))
            ELSE Goto(r, [s |-> s1, pc |-> "sleep", exc |-> None])
    /\ UNCHANGED <<clock, sessions, args, frame, jin, jout, tracker, web>>

\* line 159, then 146 or 161-163: the pause ends; the next round begins or
\* the final verdict's completion call is started
SleepReturn(r) ==
    /\ pc[r] = "sleep"
    /\ IF frame[r].round_num < DEBATE_ROUNDS
       THEN /\ frame' = [frame EXCEPT ![r] = [round_num |-> @.round_num + 1]]
            /\ pc' = [pc EXCEPT ![r] = "round"]
            /\ calls' = calls
       ELSE /\ frame' = frame
            /\ pc' = [pc EXCEPT ![r] = "verdict"]
            /\ calls' = [calls EXCEPT ![r] = Append(@, "verdict")]
    /\ UNCHANGED <<clock, sessions, sess, args, exc, jin, jout, tracker, web>>

\* token_tracker.format_session_report
FormatSessionReport(session_id) == <<"TOKEN REPORT: ">> \o session_id

\* lines 163-177: the final verdict's completion call returns or fails; the
\* verdict and the token report are stored and reported, status completed
VerdictReturn(r) ==
    /\ pc[r] = "verdict"
    /\ \E res \in VerdictOutcomes, cb1 \in BOOLEAN, cb2 \in BOOLEAN :
        LET s1 == [sess[r] EXCEPT
                      !.final_verdict = FinalVerdict(sess[r].context, res)]
            s2 == [s1 EXCEPT
                      !.token_stats = FormatSessionReport(sess[r].session_id)]
        IN  IF args[r].on_update /\ cb1 THEN Goto(r, Raised(s1, CallbackError))
            ELSE IF args[r].on_update /\ cb2
                 THEN Goto(r, Raised(s2, CallbackError))
            ELSE Goto(r, [s |-> [s2 EXCEPT !.status = "completed",
                                           !.end_time = Now],
                          pc |-> "done", exc |-> None])
    /\ UNCHANGED <<clock, sessions, args, frame, jin, jout, tracker, web>>

\* a context as DebateContext's own five fields build it, with rounds
\* 1..k-1 on record
PriorRound ==
    [arguments |-> [i \in 1..Len(Roles) |-> <<Roles[i], <<"point.">>>>],
     scores |-> [i \in 1..Len(Roles) |-> <<Roles[i], 26>>],
     feedback |-> <<"feedback">>]
\* the RoundResult of such a round, as session.results holds it
PriorResult ==
    [scores |-> GenerateFallbackScores(PriorRound.arguments),
     winner |-> "D1",
     feedback |-> PriorRound.feedback,
     recommendations |-> <<"Continue the argumentation">>]
ContextAtRound(query, k) ==
    [query |-> query,
     current_round |-> IF k > 1 THEN k - 1 ELSE 1,
     arguments_history |-> [i \in 1..(k - 1) |-> <<i, PriorRound.arguments>>],
     scores_history |-> [i \in 1..(k - 1) |-> <<i, PriorRound.scores>>],
     judge_feedback |-> [i \in 1..(k - 1) |-> <<i, PriorRound.feedback>>]]

\* _update_context_with_results called on the context of round k once the
\* arguments of round k are stored, with the round result of a failed
\* evaluation call
UpdateContextWithResultsCalls ==
    [kind : {"update_results"},
     context : {[ContextAtRound(Query(1), k) EXCEPT
                    !.current_round = k,
                    !.arguments_history = DictSet(@, k, PriorRound.arguments)] :
                k \in 1..DEBATE_ROUNDS},
     round_result : {GetFallbackEvaluation(PriorRound.arguments)}]

UpdateContextWithResultsCall ==
    /\ jin.kind = "update_results" /\ jout = NoCall
    /\ jout' = [kind |-> "returned", by |-> "_update_context_with_results",
                context |-> UpdateContextWithResults(jin.context,
                                                     jin.round_result)]
    /\ UNCHANGED <<clock, sessions, sess, pc, args, frame, exc, jin, tracker, web, calls>>

\* the loop of run_debate entered at round k on such a context; beside it,
\* one direct call of _update_context_with_results
InitRound ==
    /\ clock = 0
    /\ sessions = <<<<ExplicitId, 1>>>>
    /\ \E k \in 1..DEBATE_ROUNDS, cb \in BOOLEAN :
        /\ sess = [r \in Runs |->
                     IF r = 1
                     THEN [NewSession(ExplicitId, Query(1), Now) EXCEPT
                              !.status = "running",
                              !.enhanced_query = Query(1),
                              !.results = [i \in 1..(k - 1) |-> PriorResult],
                              !.context = ContextAtRound(Query(1), k)]
                     ELSE NoSession]
        /\ frame = [r \in Runs |->
                      IF r = 1 THEN [round_num |-> k] ELSE NoFrame]
        /\ args = [r \in Runs |->
                     IF r = 1
                     THEN [query |-> Query(1), session_id |-> ExplicitId,
                           override_query |-> None, known_enhanced |-> None,
                           skip_enhance |-> FALSE, skip_gatekeeper |-> FALSE,
                           on_update |-> cb]
                     ELSE NoArgs]
    /\ pc = [r \in Runs |-> IF r = 1 THEN "round" ELSE "idle"]
    /\ exc = [r \in Runs |-> None]
    /\ jin \in UpdateContextWithResultsCalls
    /\ jout = NoCall
    /\ tracker = <<>>
    /\ web = [r \in Runs |-> NoRequest]
    /\ calls = [r \in Runs |-> <<>>]

NextRound ==
    \/ \E r \in Runs : RoundStart(r)
    \/ \E r \in Runs : ArguerReturn(r)
    \/ UpdateContextWithResultsCall

SpecRound == InitRound /\ [][NextRound]_vars

\* The steps of run_debate after the evaluation has started.  No behaviour
\* of Spec or SpecRound enables them: NewDebateContext raises on the
\* keyword summaries, and every evaluation raises on the attribute
\* summaries.
NextRest ==
    \/ \E r \in Runs : JudgeReturn(r)
    \/ \E r \in Runs : SleepReturn(r)
    \/ \E r \in Runs : VerdictReturn(r)

SpecWhole == Init /\ [][Next \/ NextRound \/ NextRest]_vars

\* -------------------------------------------- the judge, called directly
\* sub-scores a score line can carry: the pattern accepts any digits
ScoreTuples == {<<7, 6, 6, 7>>, <<12, 0, 9, 10>>}
Segments ==
    [kind : {"score"}, role : 1..3, sub : ScoreTuples, total : {26, 31}]
    \cup [kind : {"winner"}, role : 1..3]
    \cup {[kind |-> "rec", text |-> <<" ", "cite sources", " ">>]}
    \cup {[kind |-> "text"]}
\* the segment as score_pattern captures it
Captured(seg) ==
    IF seg.kind = "score"
    THEN [kind |-> "score", role |-> seg.role,
          logic |-> seg.sub[1], evidence |-> seg.sub[2],
          refutation |-> seg.sub[3], practicality |-> seg.sub[4],
          total |-> seg.total]
    ELSE seg
Responses ==
    UNION {[1..n -> {Captured(seg) : seg \in Segments}] : n \in 0..MaxLines}
RoundArguments ==
    {<<>>,
     <<<<"D1", <<"point.">>>>, <<"D2", <<"point.">>>>>>,
     <<<<"D1", <<"point.">>>>, <<"D2", <<"[", "CONTRA", "] ">>>>,
       <<"D3", <<"point.">>>>>>}

\* totals a round can leave in scores_history: all equal, two roles tied
\* for the maximum, one role ahead
RoundTotals ==
    {<<<<"D1", 26>>, <<"D2", 26>>, <<"D3", 26>>>>,
     <<<<"D1", 20>>, <<"D2", 31>>, <<"D3", 31>>>>,
     <<<<"D1", 10>>, <<"D2", 12>>, <<"D3", 30>>>>}

\* contexts with the arguments of R rounds on record and the scores of
\* all of them, or of all but the last
ScoredContexts ==
    {[ContextAtRound(Query(1), DEBATE_ROUNDS + 1) EXCEPT
         !.scores_history = [i \in 1..n |-> <<i, totals[i]>>],
         !.judge_feedback = [i \in 1..n |-> <<i, PriorRound.feedback>>]] :
     n \in {DEBATE_ROUNDS - 1, DEBATE_ROUNDS},
     totals \in [1..DEBATE_ROUNDS -> RoundTotals]}

\* calls of final_verdict: on the context as it stands after 0..R rounds
FinalVerdictCalls ==
    [kind : {"final_verdict"},
     context : {ContextAtRound(query, k) :
                    query \in {Query(1), Query(2)},
                    k \in 1..(DEBATE_ROUNDS + 1)}
               \cup ScoredContexts,
     res : VerdictOutcomes \cup {Raise(<<"timeout">>)}]

InitJudge ==
    /\ clock = 0
    /\ sessions = <<>>
    /\ sess = [r \in Runs |-> NoSession]
    /\ pc = [r \in Runs |-> "idle"]
    /\ args = [r \in Runs |-> NoArgs]
    /\ frame = [r \in Runs |-> NoFrame]
    /\ exc = [r \in Runs |-> None]
    /\ \/ \E response \in Responses, round_arguments \in RoundArguments :
             jin = [kind |-> "call",
                    context |-> ContextAtRound(Query(1), 1),
                    response |-> response,
                    round_arguments |-> round_arguments]
       \/ jin \in FinalVerdictCalls
    /\ jout = NoCall
    /\ tracker = <<>>
    /\ web = [r \in Runs |-> NoRequest]
    /\ calls = [r \in Runs |-> <<>>]

Unchanged_session == UNCHANGED <<clock, sessions, sess, pc, args, frame, exc, tracker, web, calls>>

\* evaluate_round(context, round_arguments); the judge's completion call
\* answers with the response or fails
EvaluateRoundCall ==
    /\ jin.kind = "call" /\ jout = NoCall
    /\ \E res \in {Ok(jin.response), Raise(TransportError)} :
        LET out == EvaluateRound(jin.context, jin.round_arguments, res) IN
        jout' = IF out.ok
                THEN [kind |-> "returned", by |-> "evaluate_round",
                      result |-> out.val,
                      context |-> CanonicalAfterUpdate(jin.context,
                                                       jin.round_arguments)]
                ELSE [kind |-> "raised", by |-> "evaluate_round",
                      exc |-> out.exc,
                      context |-> CanonicalAfterUpdate(jin.context,
                                                       jin.round_arguments)]
    /\ UNCHANGED jin
    /\ Unchanged_session

\* _parse_judge_response(response, round_arguments)
ParseJudgeResponseCall ==
    /\ jin.kind = "call" /\ jout = NoCall
    /\ jout' = [kind |-> "returned", by |-> "_parse_judge_response",
                result |-> ParseJudgeResponse(jin.response, jin.round_arguments)]
    /\ UNCHANGED jin
    /\ Unchanged_session

\* _get_fallback_evaluation(round_arguments)
GetFallbackEvaluationCall ==
    /\ jin.kind = "call" /\ jout = NoCall
    /\ jout' = [kind |-> "returned", by |-> "_get_fallback_evaluation",
                result |-> GetFallbackEvaluation(jin.round_arguments)]
    /\ UNCHANGED jin
    /\ Unchanged_session

\* final_verdict(context); the judge's completion call does what jin.res
\* says; calls: the models queried; the context is only read
FinalVerdictCall ==
    /\ jin.kind = "final_verdict" /\ jout = NoCall
    /\ jout' = [kind |-> "returned", by |-> "final_verdict",
                result |-> FinalVerdict(jin.context, jin.res),
                calls |-> <<"judge">>,
                context |-> jin.context]
    /\ UNCHANGED jin
    /\ Unchanged_session

NextJudge ==
    \/ EvaluateRoundCall
    \/ ParseJudgeResponseCall
    \/ GetFallbackEvaluationCall
    \/ FinalVerdictCall

SpecJudge == InitJudge /\ [][NextJudge]_vars

\* ------------------------- the gatekeeper and a debater, called directly
\* a completion text of n characters, wrapped in blanks and quotes or not
EnhLengths == {0, 9, 10, 11, 12, 499, 500, 501}
Wrapped(core, wrap) ==
    IF wrap = "quoted" THEN <<" ", "\"">> \o core \o <<"\"", " ">>
    ELSE IF wrap = "blanks" THEN <<" ">> \o core \o <<" ", " ">>
    ELSE core
\* a model output of len characters with periods at the places given
ArgLengths == {5, 1000, 1001, 1200, 2000}
PeriodPlaces == {1, 500, 999, 1000, 1001}
Arg(len, periods) == [i \in 1..len |-> IF i \in periods THEN "." ELSE "a"]

ShouldDebateCalls ==
    [kind : {"should_debate"}, res : GkScripts]
GetEnhancedQueryCalls ==
    [kind : {"get_enhanced_query"},
     original_query : {Query(1), <<" ", "q", " ">>},
     core : {Text(n) : n \in EnhLengths},
     wrap : {"plain", "quoted", "blanks"},
     fails : BOOLEAN]
CleanArgumentCalls ==
    [kind : {"_clean_argument"},
     core : {Arg(len, periods \cap 1..len) :
                 len \in ArgLengths, periods \in SUBSET PeriodPlaces},
     wrap : {"plain", "blanks"}]
GenerateArgumentCalls ==
    [kind : {"generate_argument"},
     role : {Roles[i] : i \in 1..Len(Roles)},
     context : {ContextAtRound(query, k) :
                    query \in {Query(1), Query(2)}, k \in 1..DEBATE_ROUNDS},
     res : {Raise(TransportError), Raise(<<"timeout">>)} \cup ArgOutcomes]

InitAgents ==
    /\ clock = 0
    /\ sessions = <<>>
    /\ sess = [r \in Runs |-> NoSession]
    /\ pc = [r \in Runs |-> "idle"]
    /\ args = [r \in Runs |-> NoArgs]
    /\ frame = [r \in Runs |-> NoFrame]
    /\ exc = [r \in Runs |-> None]
    /\ jin \in ShouldDebateCalls \cup GetEnhancedQueryCalls
                \cup CleanArgumentCalls \cup GenerateArgumentCalls
    /\ jout = NoCall
    /\ tracker = <<>>
    /\ web = [r \in Runs |-> NoRequest]
    /\ calls = [r \in Runs |-> <<>>]

\* should_debate(query); the completion call does what jin.res says
ShouldDebateCall ==
    /\ jin.kind = "should_debate" /\ jout = NoCall
    /\ jout' = [kind |-> "returned", by |-> "should_debate",
                result |-> ShouldDebate(jin.res)]
    /\ UNCHANGED jin
    /\ Unchanged_session

\* get_enhanced_query(original_query); the completion call fails or answers
\* with the wrapped text
GetEnhancedQueryCall ==
    /\ jin.kind = "get_enhanced_query" /\ jout = NoCall
    /\ LET res == IF jin.fails THEN Raise(TransportError)
                  ELSE Ok(Wrapped(jin.core, jin.wrap))
       IN  jout' = [kind |-> "returned", by |-> "get_enhanced_query",
                    result |-> GetEnhancedQuery(jin.original_query, res)]
    /\ UNCHANGED jin
    /\ Unchanged_session

\* _clean_argument(argument)
CleanArgumentCall ==
    /\ jin.kind = "_clean_argument" /\ jout = NoCall
    /\ jout' = [kind |-> "returned", by |-> "_clean_argument",
                result |-> CleanArgument(Wrapped(jin.core, jin.wrap))]
    /\ UNCHANGED jin
    /\ Unchanged_session

\* generate_argument(context) of the debater of jin.role; the completion
\* call does what jin.res says
GenerateArgumentCall ==
    /\ jin.kind = "generate_argument" /\ jout = NoCall
    /\ jout' = [kind |-> "returned", by |-> "generate_argument",
                result |-> GenerateArgument(jin.role, jin.context, jin.res)]
    /\ UNCHANGED jin
    /\ Unchanged_session

NextAgents ==
    \/ ShouldDebateCall
    \/ GetEnhancedQueryCall
    \/ CleanArgumentCall
    \/ GenerateArgumentCall

SpecAgents == InitAgents /\ [][NextAgents]_vars

\* -------------------------------------------------------- token tracker
\* SessionTokenStats(session_id = session_id); object: the request whose
\* call created the instance
NewStats(session_id, r) ==
    [session_id |-> session_id,
     total_requests |-> 0,
     usage_by_role |-> <<>>,
     end_time |-> None,
     object |-> r]

\* start_session: a new instance is stored under the id
StartSession(t, session_id, r) == DictSet(t, session_id, NewStats(session_id, r))

\* log_request by request r for a completion of the model in role role
LogRequest(t, session_id, role, r) ==
    LET t1 == IF ~DictHas(t, session_id) THEN StartSession(t, session_id, r)
              ELSE t
        session == DictGet(t1, session_id)
        usage == [role |-> role, request |-> r]
        listed == IF DictHas(session.usage_by_role, role)
                  THEN DictGet(session.usage_by_role, role)
                  ELSE <<>>
    IN  DictSet(t1, session_id,
                [session EXCEPT
                    !.total_requests = @ + 1,
                    !.usage_by_role = DictSet(@, role, Append(listed, usage))])

\* finish_session
FinishSession(t, session_id, now) ==
    IF DictHas(t, session_id)
    THEN DictSet(t, session_id, [DictGet(t, session_id) EXCEPT !.end_time = now])
    ELSE t

\* APIClient.chat_completion logs a completion that succeeded when the
\* client was given a session id
AfterCompletion(t, session_id, role, res, r) ==
    IF res.ok /\ ~Falsy(session_id)
    THEN LogRequest(t, session_id, role, r)
    ELSE t

\* ------------------------------------------------- the web application
\* f"web_{os.getpid()}"
WebSessionId == <<"web_", "pid">>

\* _js_escape; "bsl" stands for the backslash, "bqt" for the backquote
JsEscape(text) ==
    [i \in 1..Len(text) |->
        IF text[i] = "bsl" THEN "bslbsl"
        ELSE IF text[i] = "bqt" THEN "bslbqt"
        ELSE IF text[i] = "${" THEN "bsl${"
        ELSE text[i]]

\* the chunk on_update writes for the event enhanced_query
EnhancedChunk(enhanced_query) ==
    <<"<script>window.updateEnhanced(", "bqt">> \o JsEscape(enhanced_query)
    \o <<"bqt", ");</script>">>
DoneChunk == <<"<script>window.markDone();</script>">>

\* what the forms of the two endpoints can carry
DebateForms == {[query |-> Query(1)]}
StreamForms ==
    [original_query : {Query(1)},
     enhanced_query : {KnownEnhanced, <<"known", "bqt", "enhanced", "bqt">>},
     use : {"original", "enhanced"}]

\* POST /debate up to asyncio.run(prepare())
Debate(r) ==
    /\ web[r].pc = "none"
    /\ \A q \in 1..(r - 1) : web[q].pc # "none"
    /\ \E form \in DebateForms :
        web' = [web EXCEPT ![r] = [NoRequest EXCEPT
                                      !.pc = "enter",
                                      !.endpoint = "debate",
                                      !.session_id = WebSessionId,
                                      !.form = form]]
    /\ UNCHANGED <<clock, sessions, sess, pc, args, frame, exc, jin, jout, tracker, calls>>

\* POST /debate_stream up to the start of the worker thread; the response
\* generator has yielded the page and waits on the queue
DebateStream(r) ==
    /\ web[r].pc = "none"
    /\ \A q \in 1..(r - 1) : web[q].pc # "none"
    /\ \E form \in StreamForms :
        web' = [web EXCEPT ![r] = [NoRequest EXCEPT
                                      !.pc = "enter",
                                      !.endpoint = "debate_stream",
                                      !.session_id = WebSessionId,
                                      !.form = form,
                                      !.generator = "waiting"]]
    /\ UNCHANGED <<clock, sessions, sess, pc, args, frame, exc, jin, jout, tracker, calls>>

\* ModelManager.__aenter__ of the request's own manager
ManagerEnter(r) ==
    /\ web[r].pc = "enter"
    /\ tracker' = IF ~Falsy(web[r].session_id)
                  THEN StartSession(tracker, web[r].session_id, r)
                  ELSE tracker
    /\ web' = [web EXCEPT ![r].pc = IF web[r].endpoint = "debate"
                                    THEN "should_debate"
                                    ELSE "run_debate"]
    /\ UNCHANGED <<clock, sessions, sess, pc, args, frame, exc, jin, jout, calls>>

\* prepare(): the gatekeeper's completion call returns or fails
PrepareShouldDebate(r) ==
    /\ web[r].pc = "should_debate"
    /\ \E res \in GkOutcomes :
        LET decision == ShouldDebate(res) IN
        /\ tracker' = AfterCompletion(tracker, web[r].session_id,
                                      "gatekeeper", res, r)
        /\ web' = [web EXCEPT
                      ![r].pc = IF decision[1] THEN "get_enhanced_query"
                                ELSE "exit",
                      ![r].prepared = IF decision[1] THEN @
                                      ELSE [rejected |-> TRUE,
                                            reason |-> decision[2]]]
    /\ UNCHANGED <<clock, sessions, sess, pc, args, frame, exc, jin, jout, calls>>

\* prepare(): the enhancement completion call returns or fails
PrepareGetEnhancedQuery(r) ==
    /\ web[r].pc = "get_enhanced_query"
    /\ \E res \in EnhOutcomes :
        /\ tracker' = AfterCompletion(tracker, web[r].session_id,
                                      "gatekeeper", res, r)
        /\ web' = [web EXCEPT
                      ![r].pc = "exit",
                      ![r].prepared =
                          [rejected |-> FALSE,
                           enhanced |-> GetEnhancedQuery(web[r].form.query, res)]]
    /\ UNCHANGED <<clock, sessions, sess, pc, args, frame, exc, jin, jout, calls>>

\* run(): run_debate on the request's own orchestrator.  With both skips
\* and a known enhanced query it reaches the construction of the context
\* without a completion call; on_update never raises (write_chunk swallows)
StreamRunDebate(r) ==
    /\ web[r].pc = "run_debate"
    /\ LET form == web[r].form
           chosen == IF form.use = "original" THEN form.original_query
                     ELSE form.enhanced_query
           a == [query |-> form.original_query,
                 session_id |-> web[r].session_id,
                 override_query |-> chosen,
                 known_enhanced |-> form.enhanced_query,
                 skip_enhance |-> TRUE,
                 skip_gatekeeper |-> TRUE,
                 on_update |-> TRUE]
           s == [NewSession(a.session_id, a.query, Now) EXCEPT
                    !.status = "running"]
           o == TryExcept(AfterGatekeeper(s, a, <<TRUE, None>>, FALSE, Now), Now)
       IN  /\ args' = [args EXCEPT ![r] = a]
           /\ sess' = [sess EXCEPT ![r] = o.s]
           /\ pc' = [pc EXCEPT ![r] = o.pc]
           /\ exc' = [exc EXCEPT ![r] = o.exc]
           /\ web' = [web EXCEPT
                         ![r].orchestrator_sessions = DictSet(@, a.session_id, r),
                         ![r].q = Append(@, EnhancedChunk(o.s.enhanced_query)),
                         ![r].pc = IF o.pc = "done" THEN "exit" ELSE "rounds"]
    /\ UNCHANGED <<clock, sessions, frame, jin, jout, tracker, calls>>

\* ModelManager.__aexit__ of the request's own manager
ManagerExit(r) ==
    /\ web[r].pc = "exit"
    /\ tracker' = IF ~Falsy(web[r].session_id)
                  THEN FinishSession(tracker, web[r].session_id, Now)
                  ELSE tracker
    /\ web' = [web EXCEPT ![r].pc = IF web[r].endpoint = "debate"
                                    THEN "done"
                                    ELSE "mark_done"]
    /\ UNCHANGED <<clock, sessions, sess, pc, args, frame, exc, jin, jout, calls>>

\* run_async after asyncio.run: the done marker, then the end sentinel
MutStreamDone(r) ==
    /\ web[r].pc = "mark_done"
    /\ web' = [web EXCEPT ![r].q = @ \o <<None, DoneChunk>>,
                          ![r].pc = "done"]
    /\ UNCHANGED <<clock, sessions, sess, pc, args, frame, exc, jin, jout, tracker, calls>>
StreamDone(r) ==
    /\ web[r].pc = "mark_done"
    /\ web' = [web EXCEPT ![r].q = @ \o <<DoneChunk, None>>,
                          ![r].pc = "done"]
    /\ UNCHANGED <<clock, sessions, sess, pc, args, frame, exc, jin, jout, tracker, calls>>

\* generate(): one turn of the loop, q.get() then break or yield
Generate(r) ==
    /\ web[r].generator = "waiting"
    /\ web[r].q # <<>>
    /\ LET chunk == Head(web[r].q) IN
       web' = [web EXCEPT
                  ![r].q = Tail(@),
                  ![r].generator = IF Falsy(chunk) THEN "finished" ELSE @,
                  ![r].yielded = IF Falsy(chunk) THEN @ ELSE Append(@, chunk)]
    /\ UNCHANGED <<clock, sessions, sess, pc, args, frame, exc, jin, jout, tracker, calls>>

InitWeb ==
    /\ clock = 0
    /\ sessions = <<>>
    /\ sess = [r \in Runs |-> NoSession]
    /\ pc = [r \in Runs |-> "idle"]
    /\ args = [r \in Runs |-> NoArgs]
    /\ frame = [r \in Runs |-> NoFrame]
    /\ exc = [r \in Runs |-> None]
    /\ jin = NoCall
    /\ jout = NoCall
    /\ tracker = <<>>
    /\ web = [r \in Runs |-> NoRequest]
    /\ calls = [r \in Runs |-> <<>>]

NextWeb ==
    \/ Tick
    \/ \E r \in Runs : Debate(r)
    \/ \E r \in Runs : DebateStream(r)
    \/ \E r \in Runs : ManagerEnter(r)
    \/ \E r \in Runs : PrepareShouldDebate(r)
    \/ \E r \in Runs : PrepareGetEnhancedQuery(r)
    \/ \E r \in Runs : StreamRunDebate(r)
    \/ \E r \in Runs : ManagerExit(r)
    \/ \E r \in Runs : StreamDone(r)
    \/ \E r \in Runs : Generate(r)

SpecWeb == InitWeb /\ [][NextWeb]_vars

\* the stream requests alone
NextStream ==
    \/ \E r \in Runs : DebateStream(r)
    \/ \E r \in Runs : ManagerEnter(r)
    \/ \E r \in Runs : StreamRunDebate(r)
    \/ \E r \in Runs : ManagerExit(r)
    \/ \E r \in Runs : StreamDone(r)
    \/ \E r \in Runs : Generate(r)

\* while a worker thread or a response generator can take a step, one of
\* them does
WebFairness == WF_vars(NextStream)

SpecWebFair == InitWeb /\ [][NextStream]_vars /\ WebFairness

\* --------------------------------------------------------------- claims
Terminal == {"rejected", "completed", "failed"}
Returned(r) == pc[r] = "done"

\* C1: whenever run_debate has returned, on the reject path, on completion
\* or after an exception, the session's status is rejected, completed or
\* failed and its end_time is set.
C1_ReturnedIsTerminal ==
    \A r \in Runs :
        Returned(r) => sess[r].status \in Terminal /\ sess[r].end_time # None

C1_Witness ==
    \E r, q \in Runs :
        /\ Returned(r) /\ sess[r].status = "failed"
        /\ Returned(q) /\ sess[q].status = "rejected"

\* C2: an exception raised inside the body of run_debate (by the progress
\* callback, by the construction of the context) never escapes the call:
\* the call returns with status failed, the exception message in the
\* verdict and end_time set.
C2_NoExceptionEscapes ==
    \A r \in Runs :
        /\ pc[r] # "raise"
        /\ exc[r] # None =>
              /\ Returned(r)
              /\ sess[r].status = "failed"
              /\ sess[r].final_verdict = <<"Tech error: ">> \o exc[r]
              /\ sess[r].end_time # None

C2_Witness ==
    \E r, q \in Runs :
        /\ Returned(r) /\ exc[r] = CallbackError
        /\ Returned(q) /\ exc[q] # None /\ exc[q] # CallbackError

\* C3: with no progress callback, so that the only failures are failing
\* completion calls, run_debate never ends failed: it ends rejected or
\* completed.
C3_TransportNeverFails ==
    \A r \in Runs :
        Returned(r) /\ ~args[r].on_update =>
            sess[r].status \in {"rejected", "completed"}

\* C4: a session's status moves only created -> pending -> running -> one
\* terminal value; a terminal status is never left.
C4_StatusStep(r) ==
    \/ sess[r].status' = sess[r].status
    \/ sess[r].status = "none" /\ sess[r].status' = "pending"
    \/ sess[r].status = "pending" /\ sess[r].status' = "running"
    \/ sess[r].status = "running" /\ sess[r].status' \in Terminal

C4_StatusMonotone == [][\A r \in Runs : C4_StatusStep(r)]_vars

C4_Witness ==
    \E r, q \in Runs :
        /\ sess[r].status = "failed"
        /\ sess[q].status = "rejected"

\* C7: every RoundResult parsed from a judge response for the three
\* arguments of a round scores exactly the roles that argued, whatever
\* score lines the response holds.
C7_ScoredRolesAreArguedRoles ==
    (/\ jout.kind = "returned"
     /\ jout.by = "_parse_judge_response"
     /\ DictKeys(jin.round_arguments) = Roles)
    => DictKeySet(jout.result.scores) = DictKeySet(jin.round_arguments)

\* C8: when an arguer's completion call failed in a round (and no progress
\* callback is there to fail), the role's argument is the placeholder with
\* its role tag, the round is scored for all three roles and the session
\* does not end failed.
C8_ArguerFailureIsSurvived ==
    \A r \in Runs :
        (/\ Returned(r)
         /\ ~args[r].on_update
         /\ frame[r].round_num > 0
         /\ frame[r].failed # {})
        => LET context == sess[r].context
               round_num == context.current_round
           IN  /\ \A role \in frame[r].failed :
                     DictGet(DictGet(context.arguments_history, round_num), role)
                         = FallbackArgument(role, context)
               /\ DictHas(context.scores_history, round_num)
               /\ DictKeys(DictGet(context.scores_history, round_num)) = Roles
               /\ sess[r].status # "failed"

\* C9: evaluate_round always returns a RoundResult and never raises; when
\* the judge's completion call fails the result is the fallback evaluation.
C9_EvaluateRoundReturns ==
    (jout.kind # "none" /\ jout.by = "evaluate_round")
    => /\ jout.kind = "returned"
       /\ DictKeys(jout.result.scores) = DictKeys(jin.round_arguments)

\* C10: a response without any score line parses to one RoundScore per
\* role of round_arguments, each 7, 6, 6, 7 with total 26.
C10_NoScoreLineGivesFallback ==
    (/\ jout.kind = "returned"
     /\ jout.by = "_parse_judge_response"
     /\ \A i \in 1..Len(jin.response) : jin.response[i].kind # "score")
    => LET scores == jout.result.scores IN
       /\ DictKeys(scores) = DictKeys(jin.round_arguments)
       /\ \A i \in 1..Len(scores) :
             /\ scores[i][2].logic = 7
             /\ scores[i][2].evidence = 6
             /\ scores[i][2].refutation = 6
             /\ scores[i][2].practicality = 7
             /\ Total(scores[i][2]) = 26

C10_Witness ==
    /\ jout.kind = "returned"
    /\ jout.by = "_parse_judge_response"
    /\ jin.response # <<>>
    /\ \A i \in 1..Len(jin.response) : jin.response[i].kind # "score"
    /\ DictKeys(jin.round_arguments) = Roles
    /\ Len(jout.result.scores) = 3

\* C11: when the gatekeeper's completion call raises, should_debate returns
\* (True, None), the debate proceeds, and the session is never rejected.
C11_GatekeeperFailsOpen ==
    (jin.kind = "service" /\ ~jin.gatekeeper.ok)
    => /\ ShouldDebate(jin.gatekeeper) = <<TRUE, None>>
       /\ \A r \in Runs :
             /\ sess[r].status # "rejected"
             /\ (pc[r] = "done" /\ ~args[r].skip_gatekeeper)
                    => sess[r].enhanced_query # <<>> \/ exc[r] # None

C11_Witness ==
    /\ jin.kind = "service" /\ ~jin.gatekeeper.ok
    /\ pc[1] = "enhance"
    /\ ~args[1].skip_gatekeeper
    /\ sess[1].status = "running"

\* C12: should_debate answers (True, None) to a trimmed response that
\* starts with PASS, (False, reason) to one that starts with REJECT, reason
\* being the text that follows the marker (less its colon and blanks), and
\* (True, None) to every other response.
C12_AfterMarker(response) ==
    LET rest == SubSeq(response, 2, Len(response)) IN
    Strip(IF StartsWith(rest, <<":">>) THEN Tail(rest) ELSE rest)

\* C12: the mapping of the trimmed response, as stated above.
C12_ShouldDebateMapping ==
    (jin.kind = "should_debate" /\ jin.res.ok /\ jout.kind = "returned")
    => LET response == Strip(jin.res.val) IN
       IF StartsWith(response, <<"PASS">>)
       THEN jout.result = <<TRUE, None>>
       ELSE IF StartsWith(response, <<"REJECT">>)
            THEN jout.result = <<FALSE, C12_AfterMarker(response)>>
            ELSE jout.result = <<TRUE, None>>

\* C13: a rejected session belongs to a call that has returned; its verdict
\* carries the reason, its end_time is set, it has no context, no results
\* and no enhanced query; the rejection is the step in which the
\* gatekeeper's call returns, and nothing happens to the session after it.
C13_Rejected(r) ==
    sess[r].status = "rejected"
    => /\ pc[r] = "done"
       /\ sess[r].final_verdict
              = <<"Rejected: ">> \o ShouldDebate(jin.gatekeeper)[2]
       /\ sess[r].end_time # None
       /\ sess[r].context = None
       /\ sess[r].results = <<>>
       /\ sess[r].enhanced_query = <<>>
       /\ sess[r].token_stats = None

C13_RejectStep(r) ==
    /\ (sess[r].status # "rejected" /\ sess'[r].status = "rejected")
           => pc[r] = "gatekeeper"
    /\ sess[r].status = "rejected"
           => sess'[r] = sess[r] /\ pc'[r] = pc[r] /\ frame'[r] = frame[r]

\* C13: a rejected session is final and untouched by any later step.
C13_RejectEndsTheCall ==
    /\ [](\A r \in Runs : C13_Rejected(r))
    /\ [][\A r \in Runs : C13_RejectStep(r)]_vars

C13_Witness ==
    /\ sess[1].status = "rejected"
    /\ sess[1].final_verdict = <<"Rejected: ", "trivial">>
    /\ clock > 0

\* C14: get_enhanced_query returns the rewrite, trimmed of blanks and of
\* surrounding double quotes, iff the completion call succeeds and the
\* trimmed length L satisfies 10 < L < 500; otherwise the original query,
\* unchanged.
C14_EnhancementLengthBounds ==
    (jin.kind = "get_enhanced_query" /\ jout.kind = "returned")
    => LET L == Len(jin.core)
           rewrite == jin.core
       IN  /\ jin.fails => jout.result = jin.original_query
           /\ (~jin.fails /\ L <= 10) => jout.result = jin.original_query
           /\ (~jin.fails /\ L >= 500) => jout.result = jin.original_query
           /\ (~jin.fails /\ L > 10 /\ L < 500) => jout.result = rewrite

C14_Witness ==
    /\ jin.kind = "get_enhanced_query" /\ jout.kind = "returned"
    /\ ~jin.fails /\ Len(jin.core) = 11 /\ jin.wrap = "quoted"
    /\ jout.result = jin.core

\* C15: the total of every RoundScore the judge constructs, parsed or
\* fallback, is the sum of its four sub-scores; for a parsed score line it
\* is the sum of the four numbers captured, whatever total the line states
\* after "=".
C15_SumOfFour(x) == x.logic + x.evidence + x.refutation + x.practicality
C15_LastScoreLine(response, i) ==
    /\ response[i].kind = "score"
    /\ \A j \in (i + 1)..Len(response) :
          response[j].kind = "score" => response[j].role # response[i].role

\* C15: every total is the sum of the four sub-scores captured.
C15_TotalIsSumOfSubScores ==
    (jout.kind = "returned"
     /\ jout.by \in {"_parse_judge_response", "_get_fallback_evaluation"})
    => LET scores == jout.result.scores IN
       /\ \A i \in 1..Len(scores) : Total(scores[i][2]) = C15_SumOfFour(scores[i][2])
       /\ jout.by = "_parse_judge_response" =>
             \A i \in 1..Len(jin.response) :
                 C15_LastScoreLine(jin.response, i) =>
                     Total(DictGet(scores, Roles[jin.response[i].role]))
                         = C15_SumOfFour(jin.response[i])

C15_Witness ==
    /\ jout.kind = "returned"
    /\ jout.by = "_parse_judge_response"
    /\ Len(jin.response) = 1
    /\ jin.response[1].kind = "score"
    /\ jin.response[1].total # C15_SumOfFour(jin.response[1])
    /\ Total(jout.result.scores[1][2]) = C15_SumOfFour(jin.response[1])

\* C16: every RoundScore of a returned RoundResult has its four sub-scores
\* in 0..10 and its total in 0..40, whatever numbers the response holds.
C16_ScoresInRange ==
    (jout.kind = "returned"
     /\ jout.by \in {"evaluate_round", "_parse_judge_response"})
    => \A i \in 1..Len(jout.result.scores) :
          LET score == jout.result.scores[i][2] IN
          /\ score.logic \in 0..10
          /\ score.evidence \in 0..10
          /\ score.refutation \in 0..10
          /\ score.practicality \in 0..10
          /\ Total(score) \in 0..40

\* C17: in a parsed RoundResult with scores, the winner is the role the
\* first winner marker names; without a marker it is the first role, in
\* the order of the scores map, whose total is the largest.
C17_WinnerExtraction ==
    (jout.kind = "returned"
     /\ jout.by = "_parse_judge_response"
     /\ jout.result.scores # <<>>)
    => LET scores == jout.result.scores
           winner == jout.result.winner
           markers == {i \in 1..Len(jin.response) :
                           jin.response[i].kind = "winner"}
       IN  IF markers # {}
           THEN \E i \in markers :
                   /\ \A j \in markers : i <= j
                   /\ winner = Roles[jin.response[i].role]
           ELSE \E i \in 1..Len(scores) :
                   /\ winner = scores[i][1]
                   /\ \A j \in 1..Len(scores) :
                         Total(scores[j][2]) <= Total(scores[i][2])
                   /\ \A j \in 1..(i - 1) :
                         Total(scores[j][2]) < Total(scores[i][2])

C17_Witness ==
    /\ jout.kind = "returned"
    /\ jout.by = "_parse_judge_response"
    /\ \A i \in 1..Len(jin.response) : jin.response[i].kind = "score"
    /\ Len(jout.result.scores) = 2
    /\ Total(jout.result.scores[1][2]) = Total(jout.result.scores[2][2])
    /\ jout.result.scores[1][1] = "D3"
    /\ jout.result.winner = "D3"

\* C18: of a trimmed output longer than 1000 characters _clean_argument
\* returns the longest prefix that ends with a period and is at most 1000
\* long, or, when no period lies within the first 1000 characters, the
\* first 1000 characters followed by "..."; a trimmed output of at most
\* 1000 characters is returned as it is.
C18_CleanArgumentTruncation ==
    (jin.kind = "_clean_argument" /\ jout.kind = "returned")
    => LET argument == jin.core
           result == jout.result
           fits == {n \in 1..1000 : n <= Len(argument) /\ argument[n] = "."}
       IN  IF Len(argument) <= 1000 THEN result = argument
           ELSE IF fits # {}
                THEN \E n \in fits :
                        /\ \A m \in fits : m <= n
                        /\ result = SubSeq(argument, 1, n)
                ELSE result = SubSeq(argument, 1, 1000) \o <<".", ".", ".">>

C18_Witness ==
    /\ jin.kind = "_clean_argument" /\ jout.kind = "returned"
    /\ jin.wrap = "blanks"
    /\ Len(jin.core) = 1200
    /\ Len(jout.result) = 1000
    /\ jout.result[500] = "."
    /\ jin.core[1001] = "."

\* C19: when its completion call fails, generate_argument returns (it does
\* not raise) the fallback text: the tag of the role and the query, the
\* same whatever the failure and whatever else the context holds.
C19_FallbackArgument ==
    (jin.kind = "generate_argument" /\ ~jin.res.ok /\ jout.kind # "none")
    => /\ jout.kind = "returned"
       /\ jout.result = FallbackArgument(jin.role,
                                         ContextAtRound(jin.context.query, 1))
       /\ jout.result[2] = DictGet(role_mapping, jin.role)
       /\ SubSeq(jout.result, 5, Len(jout.result)) = jin.context.query

C19_Witness ==
    /\ jin.kind = "generate_argument" /\ jout.kind = "returned"
    /\ jin.res = Raise(<<"timeout">>)
    /\ jin.role = "D2"
    /\ jin.context.current_round = 2
    /\ jout.result[2] = "CONTRA"

\* C20: in every round the arguers' completion calls are made one after the
\* other in the order D1, D2, D3, each started only when the one before it
\* has returned or failed, and the evaluation is entered only when all
\* three arguments are in.
C20_Order == <<"D1", "D2", "D3">>

C20_Collected(r) ==
    /\ pc[r] = "arguer" =>
          DictKeys(frame[r].round_arguments)
              = SubSeq(C20_Order, 1, frame[r].role - 1)
    /\ (/\ pc[r] \in {"judge", "done"}
        /\ DictHas(sess[r].context.arguments_history, frame[r].round_num))
       => DictKeys(DictGet(sess[r].context.arguments_history,
                           frame[r].round_num)) = C20_Order

C20_Step(r) ==
    /\ (pc[r] = "round" /\ pc'[r] # "round")
           => pc'[r] = "arguer" /\ frame'[r].role = 1
    /\ (pc[r] = "arguer" /\ pc'[r] = "arguer" /\ frame'[r] # frame[r])
           => /\ frame'[r].role = frame[r].role + 1
              /\ DictKeys(frame'[r].round_arguments)
                     = Append(DictKeys(frame[r].round_arguments),
                              C20_Order[frame[r].role])
    /\ (pc[r] = "arguer" /\ pc'[r] # "arguer" /\ exc'[r] # CallbackError)
           => /\ frame[r].role = 3
              /\ DictKeys(frame'[r].round_arguments) = C20_Order

C21_EvaluationEntered(r) ==
    \/ pc[r] = "judge"
    \/ /\ pc[r] = "done"
       /\ frame[r].round_num > 0
       /\ exc[r] = GetAttr(sess[r].context, "summaries").exc

C21_State(r) ==
    /\ pc[r] = "arguer" =>
          ~DictHas(sess[r].context.arguments_history, frame[r].round_num)
    /\ C21_EvaluationEntered(r) =>
          LET context == sess[r].context IN
          /\ context.current_round = frame[r].round_num
          /\ DictHas(context.arguments_history, context.current_round)
          /\ DictGet(context.arguments_history, context.current_round)
                 = frame[r].round_arguments
          /\ DictKeySet(frame[r].round_arguments) = {"D1", "D2", "D3"}

C21_Step(r) ==
    (/\ frame[r].round_num > 0
     /\ \/ sess'[r].context.scores_history # sess[r].context.scores_history
        \/ sess'[r].context.judge_feedback # sess[r].context.judge_feedback)
    => pc[r] = "judge"

\* C21: arguments first, then the evaluation, then scores and feedback.
C21_ArgumentsBeforeEvaluation ==
    /\ [](\A r \in Runs : C21_State(r))
    /\ [][\A r \in Runs : C21_Step(r)]_vars

C21_Witness ==
    /\ C21_EvaluationEntered(1)
    /\ frame[1].failed = {"D1", "D3"}
    /\ Len(DictGet(sess[1].context.arguments_history, frame[1].round_num)) = 3

\* C22: after a call of evaluate_round or of final_verdict, however it
\* ended, the context handed to it has the query, current_round,
\* arguments_history, scores_history and judge_feedback it had before.
C22_ContextUnchanged ==
    (jout.kind # "none" /\ jout.by \in {"evaluate_round", "final_verdict"})
    => /\ jout.context.query = jin.context.query
       /\ jout.context.current_round = jin.context.current_round
       /\ jout.context.arguments_history = jin.context.arguments_history
       /\ jout.context.scores_history = jin.context.scores_history
       /\ jout.context.judge_feedback = jin.context.judge_feedback

C22_Witness ==
    /\ jout.kind # "none"
    /\ jout.by = "evaluate_round"
    /\ Len(jin.round_arguments) = 3
    /\ jout.context.arguments_history = <<>>

\* C26: when the judge's completion call fails, final_verdict returns the
\* fallback verdict, which restates the context's query and depends on
\* nothing else; the one call it made is the failed one.
C26_FallbackVerdict ==
    (jin.kind = "final_verdict" /\ ~jin.res.ok /\ jout.kind # "none")
    => /\ jout.kind = "returned"
       /\ Len(jout.result) = Len(jin.context.query) + 2
       /\ SubSeq(jout.result, 2, 1 + Len(jin.context.query))
              = jin.context.query
       /\ jout.result
              = GetFallbackVerdict(ContextAtRound(jin.context.query, 1))
       /\ jout.calls = <<"judge">>

C26_Witness ==
    /\ jin.kind = "final_verdict" /\ jout.kind = "returned"
    /\ jin.res = Raise(TransportError)
    /\ Len(jin.context.arguments_history) = DEBATE_ROUNDS
    /\ jout.result[2] = "query"

\* C28: the transcript handed to an arguer in round r lists the rounds
\* 1..r-1 and nothing else; in round 1 it is the empty-history marker; no
\* argument collected earlier in the same round is part of it.
C28_Transcript(r) ==
    pc[r] = "arguer" =>
        LET prompt == frame[r].prompt
            parts == prompt.context
            round_num == frame[r].round_num
        IN  /\ prompt.role = Roles[frame[r].role]
            /\ prompt.round_num = round_num
            /\ round_num = 1 =>
                  parts = <<[kind |-> "first round, the history is empty"]>>
            /\ round_num > 1 =>
                  /\ {parts[i].round_num : i \in 1..Len(parts)}
                         = 1..(round_num - 1)
                  /\ \A i \in 1..Len(parts) :
                        parts[i].kind = "argument" =>
                            /\ parts[i].argument
                                  = DictGet(DictGet(
                                        sess[r].context.arguments_history,
                                        parts[i].round_num), parts[i].role)
                            /\ \A j \in 1..Len(frame[r].round_arguments) :
                                  parts[i].argument
                                      # frame[r].round_arguments[j][2]

\* C28: every arguer's transcript holds the earlier rounds only.
C28_TranscriptHoldsPriorRoundsOnly == \A r \in Runs : C28_Transcript(r)

C28_Witness ==
    /\ pc[1] = "arguer"
    /\ frame[1].round_num = DEBATE_ROUNDS
    /\ frame[1].role = 3
    /\ Len(frame[1].round_arguments) = 2
    /\ Len(frame[1].prompt.context) > 2
\* C23: the registry only grows: an id keeps its position in list_sessions
\* and the session object stored under it, whatever run_debate call
\* comes later.
C23_RegistryAppendOnly ==
    [][\A i \in 1..Len(sessions) :
          /\ Len(sessions') >= i
          /\ sessions'[i] = sessions[i]]_vars

\* get_detailed_session gives every call that has registered its session
\* that session back
C23_LookupReturnsOwnSession ==
    \A r \in Runs :
        pc[r] \notin {"idle", "off"} =>
            /\ sess[r].session_id \in {ListSessions[i] : i \in 1..Len(ListSessions)}
            /\ DictGet(sessions, sess[r].session_id) = r
            /\ GetDetailedSession(sess[r].session_id) = sess[r]
\* the entries of history h that context c holds are held unchanged by d
C29_Kept(c, d, h) ==
    \A k \in DictKeySet(c[h]) :
        /\ DictHas(d[h], k)
        /\ DictGet(d[h], k) = DictGet(c[h], k)

C29_ContextKept(c, d) ==
    /\ d.query = c.query
    /\ C29_Kept(c, d, "arguments_history")
    /\ C29_Kept(c, d, "scores_history")
    /\ C29_Kept(c, d, "judge_feedback")

\* C29: no step of a round and no call of _update_context_with_results
\* changes or removes an entry the context's histories already hold, and
\* none changes the context's query.
C29_HistoriesWriteOnce ==
    /\ [](jout.kind = "returned" => C29_ContextKept(jin.context, jout.context))
    /\ [][\A r \in Runs :
             frame[r].round_num > 0 =>
                 C29_ContextKept(sess[r].context, sess'[r].context)]_vars

\* round 3 has been stored on top of rounds 1 and 2, and the direct call
\* has written the scores and feedback of round 3
C29_Witness ==
    /\ DictKeySet(sess[1].context.arguments_history) = 1..DEBATE_ROUNDS
    /\ jout.kind = "returned"
    /\ DictKeySet(jout.context.scores_history) = 1..DEBATE_ROUNDS
    /\ DictKeySet(jout.context.judge_feedback) = 1..DEBATE_ROUNDS
    /\ DictKeySet(jin.context.scores_history) = 1..(DEBATE_ROUNDS - 1)
\* the request's manager has been entered and not yet exited
C24_Managed(r) ==
    web[r].pc \in {"should_debate", "get_enhanced_query", "run_debate", "exit"}

\* C24: with debates started through the stream endpoint only, the usage
\* statistics kept under a running request's session id are its own: the
\* instance its manager started, not replaced and not finished by the
\* other request.
C24_OwnUsageStatistics ==
    \A r \in Runs :
        /\ \A q \in Runs : web[q].endpoint \in {"none", "debate_stream"}
        /\ C24_Managed(r)
        =>
            /\ DictHas(tracker, web[r].session_id)
            /\ LET stats == DictGet(tracker, web[r].session_id) IN
               /\ stats.object = r
               /\ stats.end_time = None
               /\ \A i \in 1..Len(stats.usage_by_role) :
                     \A j \in 1..Len(stats.usage_by_role[i][2]) :
                         stats.usage_by_role[i][2][j].request = r
\* the other parts of a session are touched by its own steps only: a step
\* that changes a session, its registry or its queue is a step of that
\* request
C24_OwnSessionState ==
    [][\A r \in Runs :
          (sess'[r] # sess[r] \/ web'[r].q # web[r].q
              \/ web'[r].orchestrator_sessions # web[r].orchestrator_sessions)
          => \A q \in Runs \ {r} : web'[q] = web[q] /\ sess'[q] = sess[q]]_vars
\* C31: a call that asks to skip enhancement never waits for the
\* enhancement completion call, and a call that got past the enhancement
\* step has stored a context whose query is the override when one was
\* supplied and the enhanced query otherwise.
C31_SkipEnhanceAndOperativeQuery ==
    \A r \in Runs :
        /\ pc[r] = "enhance" => ~args[r].skip_enhance
        /\ pc[r] = "done" /\ sess[r].status # "rejected"
              /\ exc[r] # CallbackError =>
              /\ sess[r].context # None
              /\ sess[r].context.query
                    = IF args[r].override_query # None
                      THEN args[r].override_query
                      ELSE sess[r].enhanced_query
\* with skip_enhance and a known enhanced query no enhancement call is
\* waited for, and the session's enhanced query is the known one
C31_SkipWithKnownEnhanced ==
    \A r \in Runs :
        pc[r] \notin {"idle", "off"} /\ args[r].skip_enhance
            /\ args[r].known_enhanced # None =>
            /\ pc[r] # "enhance"
            /\ pc[r] = "done" /\ sess[r].status # "rejected" =>
                  sess[r].enhanced_query = args[r].known_enhanced
\* C32: a call made with skip_gatekeeper never waits for the gatekeeper's
\* completion call and its session is never rejected.
C32_SkipGatekeeper ==
    \A r \in Runs :
        pc[r] \notin {"idle", "off"} /\ args[r].skip_gatekeeper =>
            /\ pc[r] # "gatekeeper"
            /\ sess[r].status # "rejected"

C32_Witness ==
    /\ args[1].query # None
    /\ args[1].skip_gatekeeper
    /\ pc[1] = "done"
    /\ sess[1].status = "failed"
C33_MaxCalls == 1 + 1 + 4 * DEBATE_ROUNDS + 1

\* C33: a call of run_debate starts at most 1 + 1 + 4R + 1 completion
\* calls, and exactly that many when it has returned, nothing was skipped,
\* the query was admitted and the progress callback did not raise.
C33_CompletionCallCount ==
    \A r \in Runs :
        pc[r] \notin {"idle", "off"} =>
            /\ Len(calls[r]) <= C33_MaxCalls
            /\ pc[r] = "done" /\ ~args[r].skip_gatekeeper
                  /\ ~args[r].skip_enhance /\ sess[r].status # "rejected"
                  /\ exc[r] # CallbackError =>
                  Len(calls[r]) = C33_MaxCalls

\* no place of run_debate before the rounds starts its completion call
\* twice, and the calls start in the order gatekeeper, enhancement
C33_NoRepeatedCall ==
    \A r \in Runs :
        calls[r] \in {<<>>, <<"gatekeeper">>, <<"enhance">>,
                      <<"gatekeeper", "enhance">>}
\* the role holding the maximum of the totals of one round, the first such
\* role in the order of the round's entries
C34_Best(totals) ==
    totals[CHOOSE i \in 1..Len(totals) :
              /\ \A j \in 1..Len(totals) : totals[j][2] <= totals[i][2]
              /\ \A j \in 1..(i - 1) : totals[j][2] # totals[i][2]][1]

\* the number of rounds of scores_history that role wins
C34_Wins(scores_history, role) ==
    Cardinality({i \in 1..Len(scores_history) :
                    C34_Best(scores_history[i][2]) = role})

RECURSIVE C34_Summary(_, _)
C34_Summary(scores_history, k) ==
    IF k = 0 THEN <<>>
    ELSE C34_Summary(scores_history, k - 1)
         \o (IF C34_Wins(scores_history, Roles[k]) > 0
             THEN <<Roles[k], ToString(C34_Wins(scores_history, Roles[k]))>>
             ELSE <<>>)

\* the part of a formatted verdict after the label of the win counts
RECURSIVE C34_AfterLabel(_)
C34_AfterLabel(text) ==
    IF text = <<>> THEN <<>>
    ELSE IF Head(text) = "wins: " THEN Tail(text)
    ELSE C34_AfterLabel(Tail(text))

\* C34: the win counts at the end of a formatted final verdict are, for
\* every role, the number of rounds of scores_history in which it holds the
\* maximum total (the first role on ties); a round of arguments_history
\* without scores counts for nobody.
C34_WinCountsFromScores ==
    jout.kind = "returned" /\ jout.by = "final_verdict" /\ jin.res.ok =>
        C34_AfterLabel(jout.result)
            = C34_Summary(jin.context.scores_history, Len(Roles))

C34_Witness ==
    /\ jout.kind = "returned" /\ jout.by = "final_verdict" /\ jin.res.ok
    /\ Len(jin.context.arguments_history) = DEBATE_ROUNDS
    /\ Len(jin.context.scores_history) = DEBATE_ROUNDS - 1
    /\ C34_AfterLabel(jout.result) = <<"D1", "1", "D2", "1">>
\* how far a call of run_debate has got
C35_Rank(p) ==
    CASE p = "idle" -> 0
      [] p = "created" -> 1
      [] p = "admission" -> 2
      [] p = "gatekeeper" -> 3
      [] p = "enhance" -> 4
      [] p = "done" -> 6
      [] OTHER -> 5

\* C35: every call of run_debate that has started returns with a terminal
\* status, and no step takes it back to a place it has left.
C35_EveryCallReturns ==
    /\ \A r \in Runs :
          (pc[r] = "created") ~> (pc[r] = "done" /\ sess[r].status \in Terminal)
    /\ [][\A r \in Runs :
             pc'[r] # pc[r] => C35_Rank(pc'[r]) > C35_Rank(pc[r])]_vars

C35_Witness ==
    /\ pc[1] = "done"
    /\ sess[1].status = "failed"
    /\ calls[1] = <<"gatekeeper", "enhance">>
    /\ exc[1] # CallbackError
\* C36: the winner of a round result parsed from the judge's response for
\* a round in which D1, D2 and D3 argued has an entry in the result's
\* scores.
C36_WinnerHasScore ==
    /\ jout.kind = "returned"
    /\ jout.by \in {"evaluate_round", "_parse_judge_response"}
    /\ DictKeySet(jin.round_arguments) = {"D1", "D2", "D3"}
    => DictHas(jout.result.scores, jout.result.winner)
\* the context of a one-round debate whose round got round_arguments and
\* the result round_result: lines 244 and 151-156 of the orchestrator
C37_ContextAfter(context, round_arguments, round_result) ==
    UpdateContextWithResults(
        [context EXCEPT !.arguments_history =
            DictSet(@, context.current_round, round_arguments)],
        round_result)

\* C37: the round winners the final verdict's statistics count are the
\* winners of the round results: for a round result parsed from the
\* judge's response and recorded in the context, the winner the statistics
\* derive from the context is the result's winner.
C37_StatsWinnerIsResultWinner ==
    /\ jout.kind = "returned"
    /\ jout.by = "_parse_judge_response"
    /\ DictKeySet(jin.round_arguments) = {"D1", "D2", "D3"}
    => LET after == C37_ContextAfter(jin.context, jin.round_arguments,
                                     jout.result)
       IN  CalculateDebateStats(after, Len(after.arguments_history))
               .round_winners = <<jout.result.winner>>
\* C38: whatever the progress callback does, the argument recorded in
\* arguments_history for a role whose completion call succeeded is the
\* text generate_argument made of the completion.
C38_RecordedIsGenerated ==
    \A r \in Runs :
        frame[r].round_num > 0
            /\ DictHas(sess[r].context.arguments_history, frame[r].round_num)
        => LET recorded == DictGet(sess[r].context.arguments_history,
                                   frame[r].round_num)
           IN  \A i \in 1..Len(recorded) :
                   recorded[i][1] \notin frame[r].failed =>
                       recorded[i][2] \in
                           {GenerateArgument(recorded[i][1], sess[r].context, res) :
                                res \in {o \in ArgOutcomes : o.ok}}

\* C39: a session that fails during round k keeps rounds 1..k-1 as they
\* were: results has exactly the k-1 earlier results, scores_history and
\* judge_feedback hold exactly rounds 1..k-1 unchanged, and
\* arguments_history holds rounds 1..k-1 unchanged plus possibly round k.
C39_Before(r) == ContextAtRound(sess[r].context.query, frame[r].round_num)
C39_FailedKeepsEarlierRounds ==
    \A r \in Runs :
        frame[r].round_num > 0 /\ sess[r].status = "failed" =>
            LET k == frame[r].round_num
                c == sess[r].context
            IN  /\ sess[r].results = [i \in 1..(k - 1) |-> PriorResult]
                /\ c.scores_history = C39_Before(r).scores_history
                /\ c.judge_feedback = C39_Before(r).judge_feedback
                /\ DictKeySet(c.arguments_history) \in {1..(k - 1), 1..k}
                /\ \A i \in 1..(k - 1) :
                       DictGet(c.arguments_history, i) =
                           DictGet(C39_Before(r).arguments_history, i)

\* a session failed in the last round with that round's arguments stored
C39_Witness ==
    /\ frame[1].round_num = DEBATE_ROUNDS
    /\ sess[1].status = "failed"
    /\ Len(sess[1].results) = DEBATE_ROUNDS - 1
    /\ DictHas(sess[1].context.arguments_history, DEBATE_ROUNDS)

\* a session failed in round 2 before the round's arguments were stored
C39_WitnessBeforeStore ==
    /\ frame[1].round_num = 2
    /\ sess[1].status = "failed"
    /\ DictKeySet(sess[1].context.arguments_history) = {1}

\* C40: in /debate_stream the chunks the worker thread puts on the queue
\* are yielded by the generator once each and in the order they were put,
\* the done marker is the last chunk yielded, and the generator terminates
\* on the end sentinel.
C40_IsPrefix(s, t) == Len(s) <= Len(t) /\ SubSeq(t, 1, Len(s)) = s
C40_Stream(w) ==
    w.yielded \o w.q \o (IF w.generator = "finished" THEN <<None>> ELSE <<>>)
C40_Streams == {r \in Runs : web[r].endpoint = "debate_stream"}
C40_QueueState ==
    \A r \in C40_Streams :
        /\ \A i \in 1..Len(web[r].yielded) : ~Falsy(web[r].yielded[i])
        /\ web[r].pc = "done" =>
               C40_Stream(web[r]) =
                   <<EnhancedChunk(sess[r].enhanced_query), DoneChunk, None>>
        /\ web[r].generator = "finished" =>
               /\ web[r].pc = "done"
               /\ web[r].q = <<>>
               /\ web[r].yielded # <<>>
               /\ web[r].yielded[Len(web[r].yielded)] = DoneChunk
C40_QueueStep ==
    \A r \in Runs :
        web[r].endpoint = "debate_stream" =>
            /\ C40_IsPrefix(C40_Stream(web[r]), C40_Stream(web'[r]))
            /\ C40_IsPrefix(web[r].yielded, web'[r].yielded)
C40_StreamYieldsEachChunkOnceThenEnds ==
    /\ []C40_QueueState
    /\ [][C40_QueueStep]_vars
    /\ \A r \in Runs :
           (web[r].endpoint = "debate_stream") ~> (web[r].generator = "finished")

\* a stream whose debate failed, ended after the chunk of the enhanced
\* query and the done marker
C40_Witness ==
    /\ web[1].endpoint = "debate_stream"
    /\ sess[1].status = "failed"
    /\ web[1].generator = "finished"
    /\ web[1].yielded = <<EnhancedChunk(sess[1].enhanced_query), DoneChunk>>

\* the generator has yielded a chunk while the worker is still running
C40_WitnessInterleaved ==
    /\ web[1].pc = "exit"
    /\ web[1].endpoint = "debate_stream"
    /\ Len(web[1].yielded) = 1
====
